---- MODULE Spec2Model ----
(***************************************************************************)
(* Model of utils/eval_utils.py: the logit filter top_filtering and the    *)
(* early-stopping ScoreTracker.                                            *)
(*                                                                         *)
(* Numbers.  Scores are integers (tenths: 5 stands for 0.5).  A logit is   *)
(* an integer number of units of ln 2, so exp(logit) = 2^logit and the     *)
(* softmax of a vector is the exact ratio 2^x / sum; -inf is NegInf, whose *)
(* exp is 0.  top_p is the numerator of a fraction over PDen, and          *)
(* "cumulative probability > top_p" is compared by cross-multiplication.   *)
(***************************************************************************)
EXTENDS Integers, Sequences, FiniteSets, TLC

\* ---- bounds of the model -------------------------------------------------
MaxCalls == 4       \* record calls per tracker
MaxScore == 5       \* scores range over 1..MaxScore
MaxPatience == 3    \* largest stop_after_epochs
MaxLen == 3         \* vocabulary size V ranges over 1..MaxLen
MaxLogit == 2       \* finite input logits range over 0..MaxLogit
PDen == 4           \* top_p ranges over 0/PDen .. PDen/PDen

\* -float('Inf'), the default threshold and filter_value
NegInf == -1

Patiences == (0 - 1)..MaxPatience
InitialMaxes == {0, 3}
Scores == 1..MaxScore
Thresholds == {NegInf, 1}
FilterValues == {NegInf, MaxLogit}

VARIABLES
    \* ScoreTracker fields
    stop_after_epochs, counter, max_score, scores, stop_training,
    \* constructor argument, arguments of the record calls so far,
    \* last value returned by stop(), whether an operation raised
    initial_max, args, ret, raised,
    \* the tensor top_filtering mutates and its parameters
    logits, top_k, top_p, threshold, filter_value,
    \* number of calls so far and, for the first call: the tensor it was
    \* given, the sort permutation it used and the two removal masks (as
    \* sets of original indices)
    applied, input, sorted_indices, removed_k, removed_p

tvars == <<stop_after_epochs, counter, max_score, scores, stop_training,
           initial_max, args, ret, raised>>
fvars == <<logits, top_k, top_p, threshold, filter_value,
           applied, input, sorted_indices, removed_k, removed_p>>
vars == <<tvars, fvars>>

\* ---- helpers -------------------------------------------------------------
Min(a, b) == IF a < b THEN a ELSE b

\* Python max() of a non-empty list
MaxOf(s) == CHOOSE m \in {s[i] : i \in DOMAIN s} : \A i \in DOMAIN s : s[i] <= m

\* ======================= ScoreTracker ====================================

\* ScoreTracker.__init__; the filter's variables hold an idle tensor
ParkedFilter ==
    /\ logits = <<0>> /\ top_k = 0 /\ top_p = 0
    /\ threshold = NegInf /\ filter_value = NegInf
    /\ applied = 0 /\ input = <<>> /\ sorted_indices = <<>>
    /\ removed_k = {} /\ removed_p = {}

TrackerInit ==
    /\ stop_after_epochs \in Patiences
    /\ initial_max \in InitialMaxes
    /\ counter = 0
    /\ max_score = initial_max
    /\ scores = <<>>
    /\ stop_training = FALSE
    /\ args = <<>>
    /\ ret = "none"
    /\ raised = FALSE
    /\ ParkedFilter

DeactivatedBelowZero(n) == n < 0

\* "if self.stop_after_epochs < 1: return False"
Deactivated(n) == n < 1

RunningMax(s, m) == IF Len(s) > 0 THEN MaxOf(Append(s, m)) ELSE m

\* "self.max_score = max(self.scores) if len(self.scores) > 0 else self.max_score"
RecomputeMax(s, m) == IF Len(s) > 0 THEN MaxOf(s) ELSE m

PrependScore(s, score) == <<score>> \o s

\* "self.scores.append(score)"
AppendScore(s, score) == Append(s, score)

\* "if score <= self.max_score: counter += 1 else: counter = 0"
NewCounter(score, m, c) == IF score <= m THEN c + 1 ELSE 0

StopFlagNoLatch(s, c, n, st) == Len(s) >= n /\ c >= n

\* "if len(self.scores) >= N: if self.counter >= N: self.stop_training = True"
StopFlag(s, c, n, st) == IF Len(s) >= n /\ c >= n THEN TRUE ELSE st

\* ScoreTracker.__call__(score)
Record(score) ==
    /\ Len(args) < MaxCalls
    /\ args' = Append(args, score)
    /\ IF Deactivated(stop_after_epochs)
       THEN UNCHANGED <<counter, max_score, scores, stop_training>>
       ELSE LET m == RecomputeMax(scores, max_score)
                s == AppendScore(scores, score)
                c == NewCounter(score, m, counter)
            IN  /\ max_score' = m
                /\ scores' = s
                /\ counter' = c
                /\ stop_training' = StopFlag(s, c, stop_after_epochs, stop_training)
    /\ UNCHANGED <<stop_after_epochs, initial_max, ret, raised>>
    /\ UNCHANGED fvars

\* ScoreTracker.stop()
Stop ==
    /\ ret' = IF stop_training THEN "true" ELSE "false"
    /\ UNCHANGED <<stop_after_epochs, counter, max_score, scores,
                   stop_training, initial_max, args, raised>>
    /\ UNCHANGED fvars

\* ScoreTracker.print_summary(): self.scores[-1] raises IndexError on an
\* empty list; nothing else is written
PrintSummary ==
    /\ raised' = (raised \/ Len(scores) = 0)
    /\ UNCHANGED <<stop_after_epochs, counter, max_score, scores,
                   stop_training, initial_max, args, ret>>
    /\ UNCHANGED fvars

TrackerNext ==
    \/ \E score \in Scores : Record(score)
    \/ Stop
    \/ PrintSummary

TrackerSpec == TrackerInit /\ [][TrackerNext]_vars

\* ---- properties of the ScoreTracker --------------------------------------

\* maximum of the scores passed strictly before call i (initial_max at i = 1)
PriorMax(i) == IF i = 1 THEN initial_max ELSE MaxOf(SubSeq(args, 1, i - 1))

\* call i did not exceed the maximum of the earlier scores
NotExceeded(i) == args[i] <= PriorMax(i)

\* call i completed a run of n consecutive calls that did not exceed it
RunCompletedAt(i, n) == i >= n /\ \A j \in (i - n + 1)..i : NotExceeded(j)

\* C1: for an enabled tracker, stop() is true exactly when some record call
\* completed a run of stop_after_epochs consecutive calls whose score was
\* <= the maximum of the scores recorded before that call; with N = 3 and
\* initial_max = 0 the scores .5 .4 .3 .2 stop at the fourth call and the
\* scores .1 .5 .4 .3 do not stop.
C1_StopIffRunCompleted ==
    /\ stop_after_epochs >= 1 =>
          (stop_training <=>
              \E i \in 1..Len(args) : RunCompletedAt(i, stop_after_epochs))
    /\ (stop_after_epochs = 3 /\ initial_max = 0) =>
          /\ args = <<5, 4, 3>> => ~stop_training
          /\ args = <<5, 4, 3, 2>> => stop_training
          /\ args = <<1, 5, 4, 3>> => ~stop_training

\* a run was broken by a new maximum and a later run completed
C1_Witness ==
    /\ stop_after_epochs = 2
    /\ stop_training
    /\ Len(args) = 4
    /\ ~NotExceeded(2)
    /\ ~RunCompletedAt(3, 2)
    /\ RunCompletedAt(4, 2)

\* C2: once stop() has returned true, the flag it returns is true after
\* every later step, whatever scores are recorded.
C2_StopLatched == [][ret = "true" => stop_training']_vars

\* stop() returned true and a later score was a new maximum
C2_Witness ==
    /\ ret = "true"
    /\ stop_training
    /\ counter = 0
    /\ Len(scores) > stop_after_epochs

\* C3: a tracker built with stop_after_epochs < 1 keeps scores, counter,
\* max_score and stop_training as constructed through any record calls, and
\* stop() never returns true.
C3_DisabledUnchanged ==
    stop_after_epochs < 1 =>
        /\ scores = <<>>
        /\ counter = 0
        /\ max_score = initial_max
        /\ stop_training = FALSE
        /\ ret # "true"

\* a disabled tracker after record calls and a stop() query
C3_Witness ==
    /\ stop_after_epochs = 0
    /\ Len(args) = MaxCalls
    /\ ret = "false"

\* C7: no ScoreTracker operation raises, in any reachable state.
C7_NoOperationRaises == raised = FALSE

\* C8 as stated: after n record calls on any tracker, scores holds the n
\* scores passed, in call order.
C8_EveryCallAppends == scores = args

\* C8 amended: on an enabled tracker each record call appends the score it
\* was given and leaves the earlier elements in place; on a disabled
\* tracker scores stays empty.
C8_EnabledCallAppends ==
    /\ [][(stop_after_epochs >= 1 /\ args' # args)
            => scores' = Append(scores, args'[Len(args')])]_vars
    /\ [](stop_after_epochs >= 1 => scores = args)
    /\ [](stop_after_epochs < 1 => scores = <<>>)

\* an enabled tracker that recorded several different scores
C8_Witness ==
    /\ stop_after_epochs >= 1
    /\ Len(scores) = 3
    /\ scores = args
    /\ scores[1] # scores[2]
    /\ scores[2] # scores[3]

\* ======================= top_filtering ===================================

\* an idle tracker while the filter runs
ParkedTracker ==
    /\ stop_after_epochs = 0 /\ initial_max = 0 /\ counter = 0
    /\ max_score = 0 /\ scores = <<>> /\ stop_training = FALSE
    /\ args = <<>> /\ ret = "none" /\ raised = FALSE

\* all vectors of length 1..MaxLen over the finite logits
Vectors == UNION {[1..n -> 0..MaxLogit] : n \in 1..MaxLen}

\* the arguments of a call of top_filtering
FilterInit ==
    /\ logits \in Vectors
    /\ top_k \in 0..MaxLen
    /\ top_p \in 0..PDen
    /\ threshold \in Thresholds
    /\ filter_value \in FilterValues
    /\ applied = 0
    /\ input = <<>>
    /\ sorted_indices = <<>>
    /\ removed_k = {}
    /\ removed_p = {}
    /\ ParkedTracker

\* exp(x) in units where exp(1) = 2; exp(-inf) = 0
Weight(x) == IF x = NegInf THEN 0 ELSE 2 ^ x

SuppressPosInf(l, rem, fv) ==
    [i \in DOMAIN l |-> IF i \in rem THEN MaxLogit + 1 ELSE l[i]]

\* "logits[indices_to_remove] = filter_value"
Suppress(l, rem, fv) == [i \in DOMAIN l |-> IF i \in rem THEN fv ELSE l[i]]

\* torch.topk(logits, k)[0][..., -1]: the k-th largest value, with
\* multiplicity, for 1 <= k <= Len(l)
KthLargest(l, k) ==
    CHOOSE v \in {l[i] : i \in DOMAIN l} :
        /\ Cardinality({i \in DOMAIN l : l[i] > v}) < k
        /\ Cardinality({i \in DOMAIN l : l[i] >= v}) >= k

TopKRemoveInclusive(l, k) ==
    LET kk == Min(k, Len(l))
    IN  IF kk > 0
        THEN {i \in DOMAIN l : l[i] <= KthLargest(l, kk)}
        ELSE {}

\* the top-k stage's indices_to_remove
TopKRemove(l, k) ==
    LET kk == Min(k, Len(l))
    IN  IF kk > 0
        THEN {i \in DOMAIN l : l[i] < KthLargest(l, kk)}
        ELSE {}

\* the results torch.sort(logits, descending=True) may return as
\* sorted_indices: the order of equal elements is not specified
DescendingSorts(l) ==
    {perm \in Permutations(DOMAIN l) :
        \A i \in 1..(Len(l) - 1) : l[perm[i]] >= l[perm[i + 1]]}

\* sorted_logits for a given sorted_indices
SortedLogits(l, perm) == [i \in DOMAIN l |-> l[perm[i]]]

\* numerator of cumulative_probabilities[i] over the softmax denominator
RECURSIVE CumWeight(_, _)
CumWeight(sl, i) == IF i = 0 THEN 0 ELSE CumWeight(sl, i - 1) + Weight(sl[i])

BelowThresholdMask(sl, p) ==
    LET total == CumWeight(sl, Len(sl))
    IN  [i \in DOMAIN sl |-> CumWeight(sl, i) * PDen < p * total]

\* "sorted_indices_to_remove = cumulative_probabilities > top_p"
AboveThresholdMask(sl, p) ==
    LET total == CumWeight(sl, Len(sl))
    IN  [i \in DOMAIN sl |-> CumWeight(sl, i) * PDen > p * total]

ShiftRightOnly(mask) ==
    [i \in DOMAIN mask |-> IF i = 1 THEN mask[1] ELSE mask[i - 1]]

\* "mask[..., 1:] = mask[..., :-1].clone(); mask[..., 0] = 0"
ShiftRight(mask) ==
    [i \in DOMAIN mask |-> IF i = 1 THEN FALSE ELSE mask[i - 1]]

\* the top-p stage's indices_to_remove
TopPRemove(l, perm, p) ==
    LET sorted_indices_to_remove ==
            ShiftRight(AboveThresholdMask(SortedLogits(l, perm), p))
    IN  {perm[i] : i \in {j \in DOMAIN l : sorted_indices_to_remove[j]}}

\* "indices_to_remove = logits < threshold"
ThresholdRemove(l, th) == {i \in DOMAIN l : l[i] < th}

\* the tensor after the top-k stage
TopKStage(l, k, fv) == Suppress(l, TopKRemove(l, k), fv)

\* the tensor after the threshold stage
ThresholdStage(l, th, fv) == Suppress(l, ThresholdRemove(l, th), fv)

\* the stages after top-k, applied to the top-k stage's result l1 when the
\* sort yields perm
AfterTopK(l1, p, th, fv, perm) ==
    LET l2 == IF p > 0 THEN Suppress(l1, TopPRemove(l1, perm, p), fv) ELSE l1
    IN  ThresholdStage(l2, th, fv)

\* the sort orders torch.sort may use on l1 (none when top-p is off)
SortChoices(l1, p) == IF p > 0 THEN DescendingSorts(l1) ELSE {<<>>}

\* the tensors top_filtering(l, k, p, th, fv) may return
top_filtering(l, k, p, th, fv) ==
    LET l1 == TopKStage(l, k, fv)
    IN  {AfterTopK(l1, p, th, fv, perm) : perm \in SortChoices(l1, p)}

\* a call of top_filtering on the input tensor, in place
Apply ==
    /\ applied = 0
    /\ applied' = 1
    /\ input' = logits
    /\ removed_k' = TopKRemove(logits, top_k)
    /\ LET l1 == TopKStage(logits, top_k, filter_value)
       IN  \E perm \in SortChoices(l1, top_p) :
              /\ sorted_indices' = perm
              /\ removed_p' = IF top_p > 0 THEN TopPRemove(l1, perm, top_p) ELSE {}
              /\ logits' = AfterTopK(l1, top_p, threshold, filter_value, perm)
    /\ UNCHANGED <<top_k, top_p, threshold, filter_value>>
    /\ UNCHANGED tvars

\* a second call with the same parameters on the tensor the first returned
Reapply ==
    /\ applied = 1
    /\ applied' = 2
    /\ logits' \in top_filtering(logits, top_k, top_p, threshold, filter_value)
    /\ UNCHANGED <<top_k, top_p, threshold, filter_value,
                   input, sorted_indices, removed_k, removed_p>>
    /\ UNCHANGED tvars

\* one call of top_filtering
CallNext == Apply

CallSpec == FilterInit /\ [][CallNext]_vars

\* a call of top_filtering followed by a call on its result
FilterNext ==
    \/ Apply
    \/ Reapply

FilterSpec == FilterInit /\ [][FilterNext]_vars

\* ---- properties of top_filtering -----------------------------------------

\* indices the top-k stage of the first call left unsuppressed
KeptByTopK == DOMAIN input \ removed_k

\* indices the top-p stage of the first call left unsuppressed
KeptByTopP == DOMAIN input \ removed_p

\* indices neither stage of the first call suppressed
KeptAfterTopP == DOMAIN input \ (removed_k \cup removed_p)

\* the tensor the top-p stage of the first call sorted
StageTwoInput == TopKStage(input, top_k, filter_value)

\* length of the smallest prefix of sl whose probability mass is >= p/PDen
SmallestPrefix(sl, p) ==
    CHOOSE m \in 1..Len(sl) :
        /\ CumWeight(sl, m) * PDen >= p * CumWeight(sl, Len(sl))
        /\ \A n \in 1..(m - 1) :
              CumWeight(sl, n) * PDen < p * CumWeight(sl, Len(sl))

\* C4: with top_k disabled and the default threshold and filter_value, the
\* entries the top-p stage leaves unsuppressed are exactly the smallest
\* prefix of the descending sort whose cumulative probability is >= top_p.
C4_NucleusIsSmallestPrefix ==
    (applied >= 1 /\ top_k = 0 /\ top_p > 0
        /\ threshold = NegInf /\ filter_value = NegInf) =>
      KeptByTopP =
        {sorted_indices[i] :
            i \in 1..SmallestPrefix(SortedLogits(input, sorted_indices), top_p)}

\* C5 as stated: applying top_filtering to its own output with the same
\* parameters returns that output.
C5_Idempotent == [][applied >= 1 => logits' = logits]_vars

\* C5 amended: with the top-p stage disabled (top_p <= 0) and filter_value
\* -inf, applying top_filtering to its own output returns that output.
C5_IdempotentWithoutTopP ==
    [][(applied >= 1 /\ top_p <= 0 /\ filter_value = NegInf)
          => logits' = logits]_vars

\* a second call without top-p on a partly suppressed vector
C5_Witness ==
    /\ applied = 2
    /\ top_p = 0
    /\ filter_value = NegInf
    /\ removed_k # {}
    /\ threshold # NegInf
    /\ \E i \in DOMAIN logits : logits[i] = NegInf
    /\ \E i \in DOMAIN logits : logits[i] # NegInf

\* C6: with top_k = K > 0 the top-k stage leaves unsuppressed exactly the
\* entries >= the min(K, V)-th largest input value: min(K, V) entries when
\* all values are distinct, and every entry tied at that value otherwise.
C6_TopKKeepsKthLargestAndTies ==
    (applied >= 1 /\ top_k > 0) =>
      LET kk == Min(top_k, Len(input))
      IN  \A perm \in DescendingSorts(input) :
            /\ KeptByTopK = {i \in DOMAIN input : input[i] >= input[perm[kk]]}
            /\ (\A i, j \in DOMAIN input : i # j => input[i] # input[j])
                  => Cardinality(KeptByTopK) = kk
            /\ Cardinality(KeptByTopK) >= kk

\* entries tied at the K-th largest value: more than K survive
C6_Witness ==
    /\ applied = 1
    /\ top_k > 0
    /\ top_k < Len(input)
    /\ Cardinality(KeptByTopK) > top_k
    /\ \E i, j \in KeptByTopK : input[i] # input[j]

\* number of entries left unsuppressed after the top-p stage when the
\* first call's stage-two tensor l1 is filtered with top_p = q and order perm
KeptCountFor(l1, q, perm) ==
    Cardinality(DOMAIN input \ (removed_k \cup TopPRemove(l1, perm, q)))

\* the sort orders to compare with: torch.sort is a function of its input,
\* so another call on the same tensor sorts it the same way; with
\* filter_value -inf every admissible order is compared
ComparedSorts(l1) ==
    IF filter_value = NegInf THEN DescendingSorts(l1) ELSE {sorted_indices}

\* C9: for the same input, top_k, threshold and filter_value, a larger
\* top_p leaves at least as many entries unsuppressed after the top-p stage.
C9_TopPMonotone ==
    (applied >= 1 /\ top_p > 0) =>
      LET l1 == StageTwoInput
          n == Cardinality(KeptAfterTopP)
      IN  \A perm \in ComparedSorts(l1) :
            \A q \in 1..PDen :
              /\ q > top_p => KeptCountFor(l1, q, perm) >= n
              /\ q < top_p => KeptCountFor(l1, q, perm) <= n

\* a larger top_p that keeps strictly more entries
C9_Witness ==
    /\ applied = 1
    /\ top_p > 0
    /\ removed_p # {}
    /\ \E q \in (top_p + 1)..PDen :
          KeptCountFor(StageTwoInput, q, sorted_indices)
             > Cardinality(KeptAfterTopP)

\* C10: the top-p stage never suppresses the first entry of the descending
\* sort, so it leaves at least one entry unsuppressed; with filter_value
\* -inf that entry also survived the top-k stage.
C10_FirstSortedSurvives ==
    (applied >= 1 /\ top_p > 0) =>
      /\ sorted_indices[1] \notin removed_p
      /\ KeptByTopP # {}
      /\ filter_value = NegInf => sorted_indices[1] \in KeptAfterTopP

\* the first entry's own probability exceeds top_p and it alone survives
C10_Witness ==
    /\ applied = 1
    /\ top_p > 0
    /\ Len(input) > 1
    /\ LET sl == SortedLogits(StageTwoInput, sorted_indices)
       IN  CumWeight(sl, 1) * PDen > top_p * CumWeight(sl, Len(sl))
    /\ KeptByTopP = {sorted_indices[1]}

====
